---- MODULE Spec2Model ----
(***************************************************************************)
(* Model of oommfc's Driver run lifecycle (src/oommfc/drivers/driver.py):  *)
(* drive and schedule, the working-directory allocator, write_mif with its *)
(* info.json sidecar, the external process call and the result reader.     *)
(* A call is modelled step by step (pc is the caller's position in the     *)
(* code); append is drawn when the call is entered, every other argument   *)
(* where the code first reads it, and all are recorded in `call`.          *)
(***************************************************************************)
EXTENDS Integers, Sequences, FiniteSets, TLC

\* Number of drive/schedule calls made in one behaviour.
MaxCalls == 2

\* Largest magnitude, in tenths, of the K1 given to the serializer.
MaxK1 == 12

VARIABLES
    sysExists,     \* pathlib.Path(dirname, system.name).exists()
    entries,       \* names of the entries of the system directory
    files,         \* <<n, f>>: file f exists in working directory drive-n
    infos,         \* <<n, d>>: info.json of drive-n holds the dictionary d
    drive_number,  \* system.drive_number
    m,             \* system.m (which data it holds)
    table,         \* system.table
    pc,            \* position of the caller in drive / schedule
    call,          \* arguments of the call in progress (or of the last call)
    outcome,       \* "none" (no call yet), "running", "returned" or the exception raised
    raised,        \* number of exceptions the call raised to its caller
    msg,           \* message of the RuntimeError raised by schedule
    starts,        \* external processes started by the call
    alloc,         \* <<n>> when the call's setup made drive-n, else << >>
    pre,           \* the state when the call was entered
    failedRuns,    \* numbers of the working directories whose drive run failed, in order
    okDrives,      \* successful drive calls so far
    onlyOk,        \* started missing/empty and every call so far was a successful append drive
    ncalls,        \* calls entered so far
    term,          \* energy term given to the serializer
    mif,           \* text term.script() returned, as a sequence of tokens
    callers        \* the calls that run side by side on one system directory

fsVars    == <<sysExists, entries, files, infos>>
sysVars   == <<drive_number, m, table>>
callVars  == <<pc, call, outcome, raised, msg, starts, alloc, pre>>
histVars  == <<failedRuns, okDrives, onlyOk, ncalls>>
termVars  == <<term, mif>>
raceVars  == <<callers>>
vars      == <<fsVars, sysVars, callVars, histVars, termVars, raceVars>>

(***************************************************************************)
(* Names in the system directory.  Only what int(name.split("-")[1]) and   *)
(* glob("drive*") see of a name is kept.                                   *)
(***************************************************************************)
DriveDir(n) == [kind |-> "num", n |-> n]      \* "drive-<n>"
Suffixed(n) == [kind |-> "sfx", n |-> n]      \* "drive-<n>-old": split("-")[1] is "<n>"
NonInt      == [kind |-> "nonint", n |-> 0]   \* "drive-x": int("x") raises ValueError
NoDash      == [kind |-> "nodash", n |-> 0]   \* "drive_old": split("-")[1] raises IndexError
Other       == [kind |-> "other", n |-> 0]    \* "compute-0", "notes.txt": not matched

Mode == "drive"

\* system_dir.glob(f"{mode}*")
glob(es) == {p \in es : p.kind # "other"}

\* what the key function int(p.name.split("-")[1]) raises on p
KeyRaises(p) ==
    CASE p.kind = "nonint" -> "ValueError"
      [] p.kind = "nodash" -> "IndexError"
      [] OTHER -> "none"

SetMax(S) == CHOOSE x \in S : \A y \in S : y <= x

\* The try/except of _setup_working_directory: the outcomes of the scan.  max()
\* applies the key to the entries in glob order, which the file system chooses,
\* so with several unparsable names either exception can be the one raised.
\* ValueError (empty glob, or int() failing) is caught and gives 0.
next_number(es) ==
    LET g   == glob(es)
        bad == {KeyRaises(p) : p \in g} \ {"none"}
    IN  IF g = {} THEN {[exc |-> "none", next |-> 0]}
        ELSE IF bad # {}
             THEN {IF e = "ValueError" THEN [exc |-> "none", next |-> 0]
                                       ELSE [exc |-> "IndexError", next |-> 0] : e \in bad}
             ELSE {[exc |-> "none", next |-> SetMax({p.n : p \in g}) + 1]}

(***************************************************************************)
(* Values of the info dictionary and the driver keyword arguments.         *)
(***************************************************************************)
IntVal(n) == [tag |-> "int", int |-> n, str |-> ""]
StrVal(s) == [tag |-> "str", int |-> 0, str |-> s]

NoKwargs     == [k \in {} |-> IntVal(0)]                         \* MinDriver().drive(system)
TimeKwargs   == ("t" :> IntVal(1) @@ "n" :> IntVal(5))           \* drive(system, t=1, n=5)
ShadowKwargs == ("drive_number" :> IntVal(7))                    \* drive(system, drive_number=7)
KwargsChoices == {NoKwargs, TimeKwargs, ShadowKwargs}

DriverClass == "TimeDriver"                     \* self.__class__.__name__
Now == [date |-> "2024-05-17", time |-> "10:30:00"]   \* datetime.datetime.now(), formatted

InitialM     == [from |-> "user", n |-> 0]
InitialTable == [from |-> "none", n |-> 0]

NoResult == [returncode |-> 0, stdout |-> "None", stderr |-> "None"]

NoCall == [op |-> "none", append |-> TRUE, valid |-> TRUE, compute |-> FALSE,
           kwargs |-> NoKwargs, timedep |-> FALSE, win32 |-> FALSE,
           next |-> 0, res |-> NoResult]

Snapshot == [sysExists |-> sysExists, entries |-> entries, files |-> files, infos |-> infos,
             drive_number |-> drive_number, m |-> m, table |-> table]

(***************************************************************************)
(* Initial states: a fresh System object and a system directory that is    *)
(* missing, empty, or left behind by earlier sessions.                     *)
(***************************************************************************)
InitNumbered == {DriveDir(0), DriveDir(2)}
InitExtras   == { {}, {Other}, {NonInt}, {NoDash}, {NonInt, NoDash}, {Suffixed(1)} }
NoTerm == [name |-> "none", K1 |-> 0, axis |-> <<0, 0, 0>>]

\* Two calls for the same system name and dirname, each with its own position,
\* its own System object (drive_number) and its own local variables.
Callers == {1, 2}
NoCaller == [pc |-> "idle", append |-> TRUE, next |-> << >>, drive_number |-> 0,
             workingdir |-> << >>, exc |-> "none", wrote |-> << >>]

InitDriver ==
    /\ sysExists \in BOOLEAN
    /\ entries \in IF sysExists THEN {a \cup b : a \in SUBSET InitNumbered, b \in InitExtras}
                                ELSE {{}}
    /\ files = {}
    /\ infos = {}
    /\ drive_number = 0
    /\ m = InitialM
    /\ table = InitialTable
    /\ pc = "idle"
    /\ call = NoCall
    /\ outcome = "none"
    /\ raised = 0
    /\ msg = << >>
    /\ starts = 0
    /\ alloc = << >>
    /\ pre = Snapshot
    /\ failedRuns = << >>
    /\ okDrives = 0
    /\ onlyOk = (entries = {})
    /\ ncalls = 0
    /\ callers = [c \in Callers |-> NoCaller]

Init ==
    /\ InitDriver
    /\ term = NoTerm
    /\ mif = << >>

(***************************************************************************)
(* Leaving a call.                                                         *)
(***************************************************************************)
\* an exception propagates out of drive / schedule
Raise(exc) ==
    /\ pc' = "idle"
    /\ outcome' = exc
    /\ raised' = raised + 1
    /\ onlyOk' = FALSE

\* entering drive(system, append=..., **kwargs) or schedule(...)
Enter(op) ==
    /\ ncalls < MaxCalls
    /\ ncalls' = ncalls + 1
    /\ pc' = "checkargs"
    /\ \E append \in BOOLEAN : call' = [NoCall EXCEPT !.op = op, !.append = append]
    /\ outcome' = "running"
    /\ raised' = 0
    /\ msg' = << >>
    /\ starts' = 0
    /\ alloc' = << >>
    /\ pre' = Snapshot
    /\ UNCHANGED <<fsVars, sysVars, failedRuns, okDrives, onlyOk, termVars, raceVars>>

\* Driver.drive, called while no call is in progress (single-threaded use)
drive ==
    /\ pc = "idle"
    /\ Enter("drive")

\* Driver.schedule
schedule ==
    /\ pc = "idle"
    /\ Enter("schedule")

\* Mutant: the result of the validation is ignored.
checkargs_ignored ==
    /\ pc = "checkargs"
    /\ \E valid \in BOOLEAN : call' = [call EXCEPT !.valid = valid]
    /\ pc' = "setup_exists"
    /\ UNCHANGED <<fsVars, sysVars, outcome, raised, msg, starts, alloc, pre, histVars, termVars, raceVars>>

\* self._checkargs(**kwargs): the subclass accepts the keyword arguments or raises
checkargs ==
    /\ pc = "checkargs"
    /\ \E valid \in BOOLEAN :
         /\ call' = [call EXCEPT !.valid = valid]
         /\ IF valid
            THEN /\ pc' = "setup_exists"
                 /\ UNCHANGED <<outcome, raised, onlyOk>>
            ELSE Raise("ValueError")
    /\ UNCHANGED <<fsVars, sysVars, msg, starts, alloc, pre, failedRuns, okDrives, ncalls, termVars, raceVars>>

(***************************************************************************)
(* _setup_working_directory(system, dirname, mode="drive", append)         *)
(***************************************************************************)
\* Mutant: the existence test is missing.
setup_exists_unchecked ==
    /\ pc = "setup_exists"
    /\ pc' = "setup_scan"
    /\ UNCHANGED <<fsVars, sysVars, call, outcome, raised, msg, starts, alloc, pre, histVars, termVars, raceVars>>

\* if system_dir.exists() and not append: raise FileExistsError
setup_exists ==
    /\ pc = "setup_exists"
    /\ IF sysExists /\ ~call.append
       THEN Raise("FileExistsError")
       ELSE /\ pc' = "setup_scan"
            /\ UNCHANGED <<outcome, raised, onlyOk>>
    /\ UNCHANGED <<fsVars, sysVars, call, msg, starts, alloc, pre, failedRuns, okDrives, ncalls, termVars, raceVars>>

\* the scan of the existing drive* entries, then setattr(system, "drive_number", next_number)
setup_scan ==
    /\ pc = "setup_scan"
    /\ \E r \in next_number(entries) :
         IF r.exc # "none"
         THEN /\ Raise(r.exc)
              /\ UNCHANGED <<drive_number, call>>
         ELSE /\ drive_number' = r.next
              /\ call' = [call EXCEPT !.next = r.next]
              /\ pc' = "setup_mkdir"
              /\ UNCHANGED <<outcome, raised, onlyOk>>
    /\ UNCHANGED <<fsVars, m, table, msg, starts, alloc, pre, failedRuns, okDrives, ncalls, termVars, raceVars>>

\* workingdir.mkdir(parents=True): raises FileExistsError when the name is taken,
\* creates the system directory when it is missing
setup_mkdir ==
    /\ pc = "setup_mkdir"
    /\ IF DriveDir(call.next) \in entries
       THEN /\ Raise("FileExistsError")
            /\ UNCHANGED <<sysExists, entries, alloc>>
       ELSE /\ entries' = entries \cup {DriveDir(call.next)}
            /\ sysExists' = TRUE
            /\ alloc' = <<call.next>>
            /\ pc' = "write_mif"
            /\ UNCHANGED <<outcome, raised, onlyOk>>
    /\ UNCHANGED <<files, infos, sysVars, call, msg, starts, pre, failedRuns, okDrives, ncalls, termVars, raceVars>>

(***************************************************************************)
(* write_mif, run inside the working directory                             *)
(***************************************************************************)
\* Mutant: the keyword arguments are not copied into the dictionary.
info_no_kwargs(kwargs) ==
    ("drive_number" :> IntVal(drive_number) @@ "date" :> StrVal(Now.date)
     @@ "time" :> StrVal(Now.time) @@ "driver" :> StrVal(DriverClass))

\* the dictionary written to info.json: the four built-in keys, then info[k] = v
\* for every keyword argument
info(kwargs) ==
    kwargs @@ ("drive_number" :> IntVal(drive_number) @@ "date" :> StrVal(Now.date)
               @@ "time" :> StrVal(Now.time) @@ "driver" :> StrVal(DriverClass))

\* _time_dependence raises RuntimeError for a term with a callable func when the
\* keyword arguments hold no "t"; this happens before any file is opened
write_mif ==
    /\ pc = "write_mif"
    /\ \E kwargs \in KwargsChoices, compute \in BOOLEAN, timedep \in BOOLEAN :
         /\ call' = [call EXCEPT !.kwargs = kwargs, !.compute = compute, !.timedep = timedep]
         /\ IF timedep /\ "t" \notin DOMAIN kwargs
            THEN /\ Raise("RuntimeError")
                 /\ UNCHANGED <<files, infos>>
            ELSE /\ files' = files \cup {<<alloc[1], "mif">>}
                           \cup (IF compute THEN {} ELSE {<<alloc[1], "info.json">>})
                 /\ infos' = IF compute THEN infos ELSE infos \cup {<<alloc[1], info(kwargs)>>}
                 /\ pc' = IF call.op = "drive" THEN "call" ELSE "job_script"
                 /\ UNCHANGED <<outcome, raised, onlyOk>>
    /\ UNCHANGED <<sysExists, entries, sysVars, msg, starts, alloc, pre, failedRuns, okDrives, ncalls, termVars, raceVars>>

(***************************************************************************)
(* drive: run the external process, read the results, count the drive      *)
(***************************************************************************)
\* what runner.call can do: raise, or return after the process wrote its output
RunnerOutcomes ==
    {[ok |-> FALSE, out |-> {}]} \cup
    {[ok |-> TRUE, out |-> o] : o \in {{"omf", "odt"}, {"odt"}, {"omf"}}}

\* Mutant: a failed run is started once more before the error is raised.
runner_call_retry ==
    /\ pc = "call"
    /\ \E r \in RunnerOutcomes :
         IF r.ok
         THEN /\ starts' = starts + 1
              /\ files' = files \cup {<<alloc[1], f>> : f \in r.out}
              /\ pc' = "read_data"
              /\ UNCHANGED <<outcome, raised, onlyOk, failedRuns>>
         ELSE /\ starts' = starts + 2
              /\ Raise("RuntimeError")
              /\ failedRuns' = Append(failedRuns, alloc[1])
              /\ UNCHANGED files
    /\ UNCHANGED <<sysExists, entries, infos, sysVars, call, msg, alloc, pre, okDrives, ncalls, termVars, raceVars>>

\* Mutant: the working directory of a failed run is removed again.
runner_call_cleanup ==
    /\ pc = "call"
    /\ starts' = starts + 1
    /\ \E r \in RunnerOutcomes :
         IF r.ok
         THEN /\ files' = files \cup {<<alloc[1], f>> : f \in r.out}
              /\ pc' = "read_data"
              /\ UNCHANGED <<outcome, raised, onlyOk, failedRuns, entries, infos>>
         ELSE /\ Raise("RuntimeError")
              /\ failedRuns' = Append(failedRuns, alloc[1])
              /\ entries' = entries \ {DriveDir(alloc[1])}
              /\ files' = {f \in files : f[1] # alloc[1]}
              /\ infos' = {f \in infos : f[1] # alloc[1]}
    /\ UNCHANGED <<sysExists, sysVars, call, msg, alloc, pre, okDrives, ncalls, termVars, raceVars>>

\* Driver._call: one blocking runner.call
runner_call ==
    /\ pc = "call"
    /\ starts' = starts + 1
    /\ \E r \in RunnerOutcomes :
         IF r.ok
         THEN /\ files' = files \cup {<<alloc[1], f>> : f \in r.out}
              /\ pc' = "read_data"
              /\ UNCHANGED <<outcome, raised, onlyOk, failedRuns>>
         ELSE /\ Raise("RuntimeError")
              /\ failedRuns' = Append(failedRuns, alloc[1])
              /\ UNCHANGED files
    /\ UNCHANGED <<sysExists, entries, infos, sysVars, call, msg, alloc, pre, okDrives, ncalls, termVars, raceVars>>

\* Driver._read_data: sorted(omffiles)[-1] raises IndexError without an .omf file;
\* system.m is assigned before the table file is opened
read_data ==
    /\ pc = "read_data"
    /\ IF <<alloc[1], "omf">> \notin files
       THEN /\ Raise("IndexError")
            /\ UNCHANGED <<m, table>>
       ELSE /\ m' = [from |-> "omf", n |-> alloc[1]]
            /\ IF <<alloc[1], "odt">> \notin files
               THEN /\ Raise("FileNotFoundError")
                    /\ UNCHANGED table
               ELSE /\ table' = [from |-> "odt", n |-> alloc[1]]
                    /\ pc' = "drive_inc"
                    /\ UNCHANGED <<outcome, raised, onlyOk>>
    /\ UNCHANGED <<fsVars, drive_number, call, msg, starts, alloc, pre, failedRuns, okDrives, ncalls, termVars, raceVars>>

\* system.drive_number += 1, and drive returns
drive_inc ==
    /\ pc = "drive_inc"
    /\ drive_number' = drive_number + 1
    /\ pc' = "idle"
    /\ outcome' = "returned"
    /\ okDrives' = okDrives + 1
    /\ onlyOk' = (onlyOk /\ call.append)
    /\ UNCHANGED <<fsVars, m, table, call, raised, msg, starts, alloc, pre, failedRuns, ncalls, termVars, raceVars>>

(***************************************************************************)
(* schedule: write the job script, count the drive, submit                 *)
(***************************************************************************)
\* runner._call(dry_run=True) only builds the command line; the script is written
job_script ==
    /\ pc = "job_script"
    /\ files' = files \cup {<<alloc[1], "job.sh">>}
    /\ pc' = "sched_inc"
    /\ UNCHANGED <<sysExists, entries, infos, sysVars, call, outcome, raised, msg, starts, alloc, pre,
                   histVars, termVars, raceVars>>

\* Mutant: schedule does not count the drive before it submits.
sched_inc_skipped ==
    /\ pc = "sched_inc"
    /\ pc' = "sp_run"
    /\ UNCHANGED <<fsVars, sysVars, call, outcome, raised, msg, starts, alloc, pre, histVars, termVars, raceVars>>

\* system.drive_number += 1, before the submission
sched_inc ==
    /\ pc = "sched_inc"
    /\ drive_number' = drive_number + 1
    /\ pc' = "sp_run"
    /\ UNCHANGED <<fsVars, m, table, call, outcome, raised, msg, starts, alloc, pre, histVars, termVars, raceVars>>

\* what sp.run([cmd, script_name]) returns: on win32 nothing is captured
Results(win32) ==
    {[returncode |-> rc,
      stdout |-> IF win32 THEN "None" ELSE "out",
      stderr |-> IF win32 THEN "None" ELSE "err"] : rc \in {0, 1}}

sp_run ==
    /\ pc = "sp_run"
    /\ starts' = starts + 1
    /\ \E win32 \in BOOLEAN : \E res \in Results(win32) :
         call' = [call EXCEPT !.win32 = win32, !.res = res]
    /\ pc' = "sched_result"
    /\ UNCHANGED <<fsVars, sysVars, outcome, raised, msg, alloc, pre, histVars, termVars, raceVars>>

\* Mutant: the captured output is left out of the message.
message_no_output(c) ==
    << <<"text", "Error during job schedule.">>, <<"command", "cmd job.sh">> >>

\* the text of the RuntimeError
message(c) ==
    << <<"text", "Error during job schedule.">>, <<"command", "cmd job.sh">> >>
    \o (IF c.win32 THEN << >>
        ELSE << <<"stdout", c.res.stdout>>, <<"stderr", c.res.stderr>> >>)

sched_result ==
    /\ pc = "sched_result"
    /\ IF call.res.returncode # 0
       THEN /\ msg' = message(call)
            /\ Raise("RuntimeError")
       ELSE /\ pc' = "idle"
            /\ outcome' = "returned"
            /\ onlyOk' = FALSE
            /\ UNCHANGED <<msg, raised>>
    /\ UNCHANGED <<fsVars, sysVars, call, starts, alloc, pre, failedRuns, okDrives, ncalls, termVars, raceVars>>

Next ==
    \/ drive
    \/ schedule
    \/ checkargs
    \/ setup_exists
    \/ setup_scan
    \/ setup_mkdir
    \/ write_mif
    \/ runner_call
    \/ read_data
    \/ drive_inc
    \/ job_script
    \/ sched_inc
    \/ sp_run
    \/ sched_result

Spec == Init /\ [][Next]_vars

(***************************************************************************)
(* Energy-term serializers (oommfc.hamiltonian) and the text operations    *)
(* the tests apply to their output.  A text is a sequence of tokens, a     *)
(* token a sequence of strings: a word is one string, a number is its      *)
(* characters.  Numbers are decimal with one fractional digit and are      *)
(* held in tenths: 12 is 1.2.                                              *)
(***************************************************************************)
NL  == <<"\n">>
TAB == <<"\t">>
SP  == <<" ">>
W(s) == <<s>>

DigitChars == <<"0", "1", "2", "3", "4", "5", "6", "7", "8", "9">>

RECURSIVE Digits(_)
Digits(n) == IF n < 10 THEN <<DigitChars[n + 1]>>
             ELSE Digits(n \div 10) \o <<DigitChars[(n % 10) + 1]>>

Abs(k) == IF k < 0 THEN -k ELSE k

\* Mutant: the sign is not printed.
FormatUnsigned(k) == Digits(Abs(k) \div 10) \o <<".">> \o Digits(Abs(k) % 10)

\* "{}".format(v): sign, integer part, point, fraction
Format(k) ==
    (IF k < 0 THEN <<"-">> ELSE << >>)
        \o Digits(Abs(k) \div 10) \o <<".">> \o Digits(Abs(k) % 10)

OxsName(name) ==
    CASE name = "UniaxialAnisotropy" -> "Oxs_UniaxialAnisotropy"
      [] name = "Demag" -> "Oxs_Demag"

\* term.script()
script(t) ==
    <<W("#"), SP, W(t.name), NL>> \o
    (IF t.name = "Demag"
     THEN <<W("Specify"), SP, W(OxsName(t.name)), SP, W("{}"), NL, NL>>
     ELSE <<W("Specify"), SP, W(OxsName(t.name)), SP, W("{"), NL,
            TAB, W("K1"), SP, Format(t.K1), NL,
            TAB, W("axis"), SP, W("{"), SP, Format(t.axis[1]), SP, Format(t.axis[2]), SP,
                 Format(t.axis[3]), SP, W("}"), NL,
            W("}"), NL, NL>>)

\* mif.split('\n')
RECURSIVE split_lines(_)
split_lines(text) ==
    IF \A i \in DOMAIN text : text[i] # NL THEN <<text>>
    ELSE LET i == CHOOSE j \in DOMAIN text :
                     text[j] = NL /\ \A h \in 1 .. (j - 1) : text[h] # NL
         IN  <<SubSeq(text, 1, i - 1)>> \o split_lines(SubSeq(text, i + 1, Len(text)))

\* line.split(): the tokens between white space
split(line) == SelectSeq(line, LAMBDA tok : tok \notin {SP, TAB, NL})

CharValue(c) == (CHOOSE d \in DOMAIN DigitChars : DigitChars[d] = c) - 1

RECURSIVE Natural(_)
Natural(ds) == IF ds = << >> THEN 0
               ELSE 10 * Natural(SubSeq(ds, 1, Len(ds) - 1)) + CharValue(ds[Len(ds)])

\* float(token), in tenths
float(tok) ==
    LET neg  == tok # << >> /\ tok[1] = "-"
        body == IF neg THEN Tail(tok) ELSE tok
        dot  == CHOOSE j \in DOMAIN body : body[j] = "."
        mag  == 10 * Natural(SubSeq(body, 1, dot - 1))
                + Natural(SubSeq(body, dot + 1, Len(body)))
    IN  IF neg THEN -mag ELSE mag

K1Values   == (-MaxK1) .. MaxK1
AxisValues == {0, 5, 10}
Axes       == {<<x, y, z>> : x \in AxisValues, y \in AxisValues, z \in AxisValues}
                  \ {<<0, 0, 0>>}

\* UniaxialAnisotropy(K1, axis)
UniaxialAnisotropy ==
    /\ \E k \in K1Values, a \in Axes :
         term' = [name |-> "UniaxialAnisotropy", K1 |-> k, axis |-> a]
    /\ mif' = << >>
    /\ UNCHANGED <<fsVars, sysVars, callVars, histVars, raceVars>>

\* Demag()
Demag ==
    /\ term' = [name |-> "Demag", K1 |-> 0, axis |-> <<0, 0, 0>>]
    /\ mif' = << >>
    /\ UNCHANGED <<fsVars, sysVars, callVars, histVars, raceVars>>

\* mif = term.script()
test_script ==
    /\ term # NoTerm
    /\ mif' = script(term)
    /\ UNCHANGED <<fsVars, sysVars, callVars, histVars, term, raceVars>>

InitScript ==
    /\ InitDriver
    /\ ~sysExists
    /\ term = NoTerm
    /\ mif = << >>

NextScript ==
    \/ UniaxialAnisotropy
    \/ Demag
    \/ test_script

SpecScript == InitScript /\ [][NextScript]_vars


(***************************************************************************)
(* Two calls whose working-directory setup interleaves.  Each statement of *)
(* _setup_working_directory that touches the file system is one step; the  *)
(* system directory is shared.  pathlib's mkdir(parents=True) is os.mkdir, *)
(* and on FileNotFoundError the parent made with exist_ok=True followed by *)
(* os.mkdir again; each os.mkdir is atomic.                                *)
(***************************************************************************)
Step(c, r) ==
    /\ callers' = [callers EXCEPT ![c] = r]
    /\ UNCHANGED <<sysVars, callVars, histVars, termVars>>

\* Mutant: mkdir(parents=True, exist_ok=True) accepts an existing directory.
mkdir_exist_ok(es, n) == FALSE

\* os.mkdir raises FileExistsError when the name is taken
mkdir_fails(es, n) == DriveDir(n) \in es

conc_enter(c) ==
    /\ callers[c].pc = "idle"
    /\ \E append \in BOOLEAN :
         Step(c, [callers[c] EXCEPT !.pc = "setup_exists", !.append = append])
    /\ UNCHANGED fsVars

conc_setup_exists(c) ==
    /\ callers[c].pc = "setup_exists"
    /\ IF sysExists /\ ~callers[c].append
       THEN Step(c, [callers[c] EXCEPT !.pc = "raised", !.exc = "FileExistsError"])
       ELSE Step(c, [callers[c] EXCEPT !.pc = "setup_scan"])
    /\ UNCHANGED fsVars

conc_setup_scan(c) ==
    /\ callers[c].pc = "setup_scan"
    /\ \E r \in next_number(entries) :
         IF r.exc # "none"
         THEN Step(c, [callers[c] EXCEPT !.pc = "raised", !.exc = r.exc])
         ELSE Step(c, [callers[c] EXCEPT !.pc = "setup_mkdir", !.next = <<r.next>>,
                                         !.drive_number = r.next])
    /\ UNCHANGED fsVars

conc_setup_mkdir(c) ==
    /\ callers[c].pc = "setup_mkdir"
    /\ IF ~sysExists
       THEN /\ Step(c, [callers[c] EXCEPT !.pc = "mkdir_parents"])
            /\ UNCHANGED fsVars
       ELSE IF mkdir_fails(entries, callers[c].next[1])
            THEN /\ Step(c, [callers[c] EXCEPT !.pc = "raised", !.exc = "FileExistsError"])
                 /\ UNCHANGED fsVars
            ELSE /\ entries' = entries \cup {DriveDir(callers[c].next[1])}
                 /\ Step(c, [callers[c] EXCEPT !.pc = "write_mif",
                                               !.workingdir = callers[c].next])
                 /\ UNCHANGED <<sysExists, files, infos>>

\* self.parent.mkdir(parents=True, exist_ok=True), then os.mkdir is tried again
conc_mkdir_parents(c) ==
    /\ callers[c].pc = "mkdir_parents"
    /\ sysExists' = TRUE
    /\ Step(c, [callers[c] EXCEPT !.pc = "setup_mkdir"])
    /\ UNCHANGED <<entries, files, infos>>

\* write_mif inside the working directory the setup returned
conc_write_mif(c) ==
    /\ callers[c].pc = "write_mif"
    /\ files' = files \cup {<<callers[c].workingdir[1], "mif">>}
    /\ Step(c, [callers[c] EXCEPT !.pc = "written", !.wrote = callers[c].workingdir])
    /\ UNCHANGED <<sysExists, entries, infos>>

NextConc ==
    \E c \in Callers :
        \/ conc_enter(c)
        \/ conc_setup_exists(c)
        \/ conc_setup_scan(c)
        \/ conc_setup_mkdir(c)
        \/ conc_mkdir_parents(c)
        \/ conc_write_mif(c)

SpecConc == Init /\ [][NextConc]_vars


(***************************************************************************)
(* Properties                                                              *)
(***************************************************************************)
\* the call has ended: it returned or raised
Done == pc = "idle" /\ outcome \notin {"none", "running"}

\* nothing on disk, no process and no counter differs from the state at entry
NoSideEffect ==
    /\ sysExists = pre.sysExists
    /\ entries = pre.entries
    /\ files = pre.files
    /\ infos = pre.infos
    /\ starts = 0
    /\ drive_number = pre.drive_number

HasFile(f) == alloc # << >> /\ <<alloc[1], f>> \in files

\* C1 as stated: whenever the system directory exists and append=False, drive and
\* schedule raise FileExistsError and have had no side effect.
C1_AsStated ==
    (Done /\ pre.sysExists /\ ~call.append)
        => (outcome = "FileExistsError" /\ raised = 1 /\ NoSideEffect)

\* C1 amended: when the keyword arguments pass _checkargs, the system directory
\* exists and append=False, drive and schedule raise FileExistsError and have had
\* no side effect (no directory, no file, no process, drive_number as before).
C1_ExistsNoAppend ==
    (Done /\ call.valid /\ pre.sysExists /\ ~call.append)
        => (outcome = "FileExistsError" /\ raised = 1 /\ NoSideEffect)

C1_Witness ==
    /\ Done /\ call.valid /\ pre.sysExists /\ ~call.append
    /\ pre.entries # {}
    /\ outcome = "FileExistsError"

\* C2: with append=True and an existing system directory, whatever it contains,
\* the working-directory setup raises nothing, adds exactly one entry to the system
\* directory and keeps every earlier entry.
C2_AppendAlwaysSucceeds ==
    (Done /\ call.valid /\ call.append /\ pre.sysExists)
        => /\ alloc # << >>
           /\ pre.entries \subseteq entries
           /\ Cardinality(entries \ pre.entries) = 1

\* C3: for every set of entries starting with the mode prefix, the scan gives 0
\* when there is none and otherwise a number above every existing one, the directory
\* of that number did not exist, and system.drive_number is that number.
C3_NextNumber ==
    /\ (Done /\ call.valid /\ (call.append \/ ~pre.sysExists)) => alloc # << >>
    /\ pc = "setup_mkdir" =>
          /\ (glob(entries) = {}) = (call.next = 0)
          /\ \A p \in glob(entries) : call.next > p.n
          /\ DriveDir(call.next) \notin entries
          /\ drive_number = call.next

\* C4: when _checkargs raises, its exception reaches the caller and nothing else
\* has happened: no directory, no file, no process, and drive_number, m and table
\* are as they were.
C4_ValidationFirst ==
    (Done /\ ~call.valid)
        => /\ outcome = "ValueError" /\ raised = 1
           /\ NoSideEffect
           /\ m = pre.m /\ table = pre.table
           /\ alloc = << >>

C4_Witness ==
    /\ Done /\ ~call.valid /\ outcome = "ValueError"
    /\ pre.sysExists /\ ~call.append
    /\ ncalls = 2 /\ pre.files # {}

\* C5: a call that got past validation, directory setup and script writing has
\* started the external process exactly once when it ends, whether the process
\* succeeded or failed; a call that failed earlier has started it zero times; the
\* steps after the run are reached only once the process has been started and
\* has finished.
C5_OneProcessPerCall ==
    /\ starts <= 1
    /\ Done => starts = (IF HasFile("mif") /\ (call.op = "schedule" => HasFile("job.sh"))
                         THEN 1 ELSE 0)
    /\ pc \in {"read_data", "drive_inc", "sched_result"} => starts = 1

C5_Witness ==
    /\ Done /\ call.op = "drive" /\ outcome = "RuntimeError" /\ starts = 1
    /\ HasFile("mif")

\* C6: in schedule, a non-zero exit code of the submission command gives exactly
\* one RuntimeError whose message holds the command line and, off Windows, the
\* captured stdout and stderr; exit code zero gives a return without exception.
InMsg(x) == \E i \in DOMAIN msg : msg[i] = x

C6_ScheduleError ==
    (Done /\ call.op = "schedule" /\ starts = 1)
        => IF call.res.returncode # 0
           THEN /\ outcome = "RuntimeError" /\ raised = 1
                /\ InMsg(<<"command", "cmd job.sh">>)
                /\ ~call.win32 => /\ InMsg(<<"stdout", call.res.stdout>>)
                                  /\ InMsg(<<"stderr", call.res.stderr>>)
           ELSE outcome = "returned" /\ raised = 0

C6_Witness ==
    /\ Done /\ call.op = "schedule" /\ starts = 1
    /\ call.res.returncode # 0 /\ ~call.win32
    /\ outcome = "RuntimeError"

\* the info.json of working directory n
InfoOf(n) == CHOOSE d \in {f[2] : f \in {g \in infos : g[1] = n}} : TRUE
HasInfo(n) == \E f \in infos : f[1] = n
BuiltIn == ("drive_number" :> IntVal(alloc[1]) @@ "date" :> StrVal(Now.date)
            @@ "time" :> StrVal(Now.time) @@ "driver" :> StrVal(DriverClass))

\* C7 as stated: every call that wrote its input script, with any compute, left
\* an info.json holding class name, date, time, drive number and every kwarg.
C7_AsStated ==
    HasFile("mif")
        => /\ HasFile("info.json") /\ HasInfo(alloc[1])
           /\ \A k \in DOMAIN BuiltIn :
                 k \in DOMAIN InfoOf(alloc[1]) /\ InfoOf(alloc[1])[k] = BuiltIn[k]
           /\ \A k \in DOMAIN call.kwargs :
                 k \in DOMAIN InfoOf(alloc[1]) /\ InfoOf(alloc[1])[k] = call.kwargs[k]

\* C7 amended: a call that wrote its input script with compute=None left an
\* info.json in its working directory that holds every keyword argument with the
\* value passed and, under each of drive_number, date, time and driver that is not
\* the name of a keyword argument, the number of the working directory, the date,
\* the time and the class name; with compute given there is no info.json.
C7_InfoSidecar ==
    HasFile("mif")
        => IF call.compute
           THEN ~HasFile("info.json") /\ ~HasInfo(alloc[1])
           ELSE /\ HasFile("info.json") /\ HasInfo(alloc[1])
                /\ DOMAIN InfoOf(alloc[1]) = DOMAIN BuiltIn \cup DOMAIN call.kwargs
                /\ \A k \in DOMAIN call.kwargs : InfoOf(alloc[1])[k] = call.kwargs[k]
                /\ \A k \in DOMAIN BuiltIn \ DOMAIN call.kwargs :
                      InfoOf(alloc[1])[k] = BuiltIn[k]

C7_Witness ==
    /\ Done /\ call.op = "schedule" /\ outcome = "returned"
    /\ ~call.compute /\ call.kwargs = TimeKwargs
    /\ HasInfo(alloc[1]) /\ InfoOf(alloc[1])["t"] = IntVal(1)
    /\ InfoOf(alloc[1])["drive_number"] = IntVal(alloc[1])

\* the drive call that just ended failed in runner.call
RunFailed == Done /\ call.op = "drive" /\ starts = 1 /\ outcome = "RuntimeError"

C10_Sequence ==
    (pc = "idle" /\ onlyOk)
        => /\ entries = {DriveDir(i) : i \in 0 .. (okDrives - 1)}
           /\ drive_number = okDrives
           /\ \A f \in infos : f[2]["drive_number"] = IntVal(f[1])

\* C8: the text of a serializer has line 1 '# <TermName>', line 2 'Specify
\* Oxs_<TermName>' followed by '{}' for Demag and by '{' otherwise, and ends with
\* two newlines; for UniaxialAnisotropy(K1, axis) line 3 is a tab and 'K1 <v>',
\* line 4 a tab and 'axis { <x> <y> <z> }', line 5 '}', and every printed number
\* parses back to the value passed in.
C8_ScriptGrammar ==
    mif # << >> =>
        LET lines == split_lines(mif)
        IN  /\ Len(mif) >= 2 /\ mif[Len(mif)] = NL /\ mif[Len(mif) - 1] = NL
            /\ split(lines[1]) = <<W("#"), W(term.name)>>
            /\ term.name = "Demag" =>
                  split(lines[2]) = <<W("Specify"), W("Oxs_Demag"), W("{}")>>
            /\ term.name = "UniaxialAnisotropy" =>
                  /\ split(lines[2]) = <<W("Specify"), W("Oxs_UniaxialAnisotropy"), W("{")>>
                  /\ lines[3][1] = TAB
                  /\ Len(split(lines[3])) = 2
                  /\ split(lines[3])[1] = W("K1")
                  /\ float(split(lines[3])[2]) = term.K1
                  /\ lines[4][1] = TAB
                  /\ Len(split(lines[4])) = 6
                  /\ split(lines[4])[1] = W("axis")
                  /\ split(lines[4])[2] = W("{")
                  /\ \A i \in 1 .. 3 : float(split(lines[4])[i + 2]) = term.axis[i]
                  /\ split(lines[4])[6] = W("}")
                  /\ lines[5] = <<W("}")>>

C8_Witness ==
    /\ term.name = "UniaxialAnisotropy" /\ term.K1 = -12 /\ term.axis = <<0, 5, 10>>
    /\ mif = script(term)
    /\ split(split_lines(mif)[3])[2] = <<"-", "1", ".", "2">>

\* C11: schedule never ingests results: system.m and system.table are as before the
\* call for every outcome of the submission.  system.drive_number is incremented
\* before the submission command runs, so once the submission step is reached it
\* is the allocated directory number plus 1, both when the submission succeeds
\* and when it fails with RuntimeError; drive increments only after success.
C11_ScheduleFrame ==
    /\ call.op = "schedule" => m = pre.m /\ table = pre.table
    /\ pc = "sp_run" => starts = 0 /\ drive_number = alloc[1] + 1
    /\ (call.op = "schedule" /\ starts = 1) =>
          /\ drive_number = alloc[1] + 1
          /\ Done => outcome \in {"returned", "RuntimeError"}
    /\ (Done /\ call.op = "drive" /\ starts = 1) =>
          drive_number = alloc[1] + (IF outcome = "returned" THEN 1 ELSE 0)

C11_Witness ==
    /\ Done /\ call.op = "schedule" /\ starts = 1
    /\ outcome = "RuntimeError"
    /\ alloc[1] = 1 /\ drive_number = 2
    /\ m = [from |-> "omf", n |-> 0] /\ pre.m = m

\* the caller has computed its number and its mkdir has returned or raised
PastMkdir(c) ==
    /\ callers[c].next # << >>
    /\ callers[c].pc \in {"write_mif", "written", "raised"}

\* C12: two calls whose setups interleave never both obtain the same working
\* directory: when both computed the same next number, exactly one mkdir
\* succeeded and the other call failed with FileExistsError and wrote nothing.
C12_ExactlyOneMkdir ==
    \A c \in Callers : \A d \in Callers \ {c} :
        /\ (callers[c].workingdir # << >> /\ callers[d].workingdir # << >>)
               => callers[c].workingdir # callers[d].workingdir
        /\ (PastMkdir(c) /\ PastMkdir(d) /\ callers[c].next = callers[d].next)
               => \/ /\ callers[c].workingdir # << >>
                     /\ callers[d].exc = "FileExistsError" /\ callers[d].wrote = << >>
                  \/ /\ callers[d].workingdir # << >>
                     /\ callers[c].exc = "FileExistsError" /\ callers[c].wrote = << >>

\* The part of C12 that holds for every content of the system directory: no two
\* calls obtain the same working directory, a call writes only into the directory
\* its own mkdir made, and a call whose number is taken fails with
\* FileExistsError without writing.
C12_NeverShared ==
    \A c \in Callers : \A d \in Callers \ {c} :
        /\ (callers[c].workingdir # << >> /\ callers[d].workingdir # << >>)
               => callers[c].workingdir # callers[d].workingdir
        /\ callers[c].wrote # << >> => callers[c].wrote = callers[c].workingdir
        /\ (PastMkdir(c) /\ PastMkdir(d) /\ callers[c].next = callers[d].next)
               => /\ callers[c].workingdir = << >> \/ callers[d].workingdir = << >>
                  /\ callers[c].workingdir = << >> =>
                        callers[c].exc = "FileExistsError" /\ callers[c].wrote = << >>

C12_RaceWitness ==
    /\ PastMkdir(1) /\ PastMkdir(2) /\ callers[1].next = callers[2].next
    /\ callers[1].wrote # << >> /\ callers[2].exc = "FileExistsError"
    /\ pre.sysExists = FALSE

====
